---- MODULE Spec2Model ----
(***************************************************************************)
(* Model of latex.py (outline tree, word counts, daily snapshot, diff) and *)
(* server.py (command listener).                                           *)
(*                                                                         *)
(* Strings that the code inspects character by character (dotted numbers,  *)
(* source tokens) are sequences of one-character strings; strings that are *)
(* only compared or used as keys (captions, types, pages) are atoms.       *)
(* A Python dict is a sequence of <<key, value>> pairs in insertion order. *)
(***************************************************************************)
EXTENDS Integers, Sequences, FiniteSets, TLC

VARIABLES
    day,        \* the wall clock's calendar day
    toc,        \* records of TOCPATH, as Parser([CHAPTER, SECTION, SUBSECTION]) returns them
    chapters,   \* CHAPTERS directory: leading caption of a source unit -> its word count
    files,      \* DATADIR: snapshot key (a day) -> content of snapshot-<key>.pkl, <<>> = an empty file
    written,    \* history: snapshot key -> the days on which that file was written
    srv,        \* the server process of server.py
    out,        \* what the last invocation printed
    edits,      \* history: how often the document was edited
    procs,      \* processes racing through backup_first_start_of_day
    cw,         \* the loop of WordCounter.count_words over one file
    bib         \* figure and reference keys, and the consistency reports made of them

vars == <<day, toc, chapters, files, written, srv, out, edits, procs, cw, bib>>

\* ---------------------------------------------------------------- bounds
MaxRecs == 3        \* records in the table of contents
MaxWords == 2       \* words in one source unit
MaxDay == 1         \* days the clock runs through
MaxEdits == 1       \* edits of the document in one behaviour

\* ---------------------------------------------------------------- strings and dicts
NONE == <<>>

startswith(s, prefix) == Len(prefix) <= Len(s) /\ SubSeq(s, 1, Len(prefix)) = prefix

count(s, ch) == Cardinality({i \in 1..Len(s) : s[i] = ch})

Keys(d) == {d[i][1] : i \in 1..Len(d)}

DictGet(d, k) == d[CHOOSE i \in 1..Len(d) : d[i][1] = k][2]

\* d[k] = v: an existing key keeps its position, a new key goes last
DictSet(d, k, v) ==
    IF k \in Keys(d)
    THEN [i \in 1..Len(d) |-> IF d[i][1] = k THEN <<k, v>> ELSE d[i]]
    ELSE Append(d, <<k, v>>)

\* ---------------------------------------------------------------- Tree helpers
_get_number(item) == item[2]
_get_level(item) == count(_get_number(item), ".")
_get_type(item) == item[1]
\* mutants: the other column of a lut entry
_get_words_percent(item) == item[5]
_get_percent_words(item) == item[4]

_get_words(item) == item[4]
_get_percent(item) == item[5]
_is_chapter(item) == _get_type(item) = "chapter"
_is_descendant(item, candidate) == startswith(_get_number(candidate), _get_number(item))
_is_next_generation(item, candidate) == _get_level(candidate) = _get_level(item) + 1
_is_child_of_item(item, candidate) ==
    _is_descendant(item, candidate) /\ _is_next_generation(item, candidate)
_is_child(item, candidate) ==
    IF item = NONE THEN _is_chapter(candidate) ELSE _is_child_of_item(item, candidate)

get_children(table_of_content, node) ==
    SelectSeq(table_of_content, LAMBDA item : _is_child(node, item))

\* generate_tree's loop over children[i..]; returns the dict and the nodes counted
RECURSIVE generate_tree_from(_, _, _, _)
generate_tree_from(table_of_content, tree, children, i) ==
    IF i > Len(children) THEN [tree |-> tree, n |-> 0]
    ELSE LET child == children[i]
             number == _get_number(child)
             sub == generate_tree_from(table_of_content, <<>>,
                                       get_children(table_of_content, child), 1)
             rest == generate_tree_from(table_of_content, DictSet(tree, number, sub.tree),
                                        children, i + 1)
         IN [tree |-> rest.tree, n |-> 1 + sub.n + rest.n]

generate_tree(table_of_content, tree, current_node) ==
    generate_tree_from(table_of_content, tree, get_children(table_of_content, current_node), 1)

\* ---------------------------------------------------------------- WordCounter
Max(S) == CHOOSE m \in S : \A x \in S : x <= m

count_all_words(dir) ==
    [entries |-> dir, maxwords |-> Max({-1} \union {dir[c] : c \in DOMAIN dir})]

\* int(words / maxwords * 50); on the word counts of this model the double
\* quotient and product round to the exact value's integer part
percent_of(words, maxwords) == (words * 50) \div maxwords

RECURSIVE generate_lut_from(_, _, _, _)
generate_lut_from(table_of_content, wc, lut, i) ==
    IF i > Len(table_of_content) THEN [err |-> "", lut |-> lut]
    ELSE LET item == table_of_content[i]
             number == item[2]
             caption == item[3]
             page == item[4]
         IN IF caption \notin DOMAIN wc.entries THEN [err |-> "KeyError", lut |-> lut]
            ELSE IF wc.maxwords = 0 THEN [err |-> "ZeroDivisionError", lut |-> lut]
            ELSE LET words == wc.entries[caption]
                     percent == percent_of(words, wc.maxwords)
                 IN generate_lut_from(table_of_content, wc,
                        DictSet(lut, _get_number(item),
                                <<number, caption, page, words, percent>>), i + 1)

generate_lut(table_of_content, wc) == generate_lut_from(table_of_content, wc, <<>>, 1)

\* Tree.__init__ in a process whose default argument `tree` of generate_tree
\* currently holds shared; `shared` of the result is that dict afterwards
Tree(table_of_content, dir, shared) ==
    LET g == generate_tree(table_of_content, shared, NONE)
        l == generate_lut(table_of_content, count_all_words(dir))
    IN [err |-> l.err, tree |-> g.tree, lut |-> l.lut,
        number_of_nodes |-> g.n, shared |-> g.tree]

\* get_tree's loop over tree[i..]; err is the exception that ends the generator
RECURSIVE get_tree_from(_, _, _, _)
get_tree_from(tree, lut, level, i) ==
    IF i > Len(tree) THEN [err |-> "", items |-> <<>>]
    ELSE LET number == tree[i][1] IN
         IF number \notin Keys(lut) THEN [err |-> "KeyError", items |-> <<>>]
         ELSE LET here == <<<<level>> \o DictGet(lut, number)>>
                  sub == IF Len(tree[i][2]) > 0
                         THEN get_tree_from(tree[i][2], lut, level + 1, 1)
                         ELSE [err |-> "", items |-> <<>>]
              IN IF sub.err # "" THEN [err |-> sub.err, items |-> here \o sub.items]
                 ELSE LET rest == get_tree_from(tree, lut, level, i + 1)
                      IN [err |-> rest.err, items |-> here \o sub.items \o rest.items]

get_tree(t) == get_tree_from(t.tree, t.lut, 0, 1)

\* DiffTree.__iter__ over items[i..]; diff is <<>> (None) or <<baseline tree>>
RECURSIVE DiffTree_iter_from(_, _, _)
DiffTree_iter_from(items, diff, i) ==
    IF i > Len(items) THEN [err |-> "", items |-> <<>>]
    ELSE IF diff = <<>>
    THEN LET rest == DiffTree_iter_from(items, diff, i + 1)
         IN [err |-> rest.err, items |-> <<items[i]>> \o rest.items]
    ELSE LET number == items[i][2] IN
         IF number \notin Keys(diff[1].lut) THEN [err |-> "KeyError", items |-> <<>>]
         ELSE LET oldwords == _get_words(DictGet(diff[1].lut, number))
                  oldpercent == _get_percent(DictGet(diff[1].lut, number))
                  rest == DiffTree_iter_from(items, diff, i + 1)
              IN [err |-> rest.err,
                  items |-> <<items[i] \o <<oldwords, oldpercent>>>> \o rest.items]

DiffTree_iter(t, diff) ==
    LET g == get_tree(t)
        d == DiffTree_iter_from(g.items, diff, 1)
    IN [err |-> IF d.err # "" THEN d.err ELSE g.err, items |-> d.items]

\* ---------------------------------------------------------------- snapshot files
\* pickle.dump of {"table-of-content": Tree}: the instance's tree and node count,
\* the items of its lut in insertion order, and the STOP opcode
pickle_dump(t) ==
    <<[op |-> "TREE", n |-> t.number_of_nodes, tree |-> t.tree, item |-> <<>>]>>
    \o [i \in 1..Len(t.lut) |-> [op |-> "SETITEM", n |-> 0, tree |-> <<>>, item |-> t.lut[i]]]
    \o <<[op |-> "STOP", n |-> 0, tree |-> <<>>, item |-> <<>>]>>

\* pickle.load reads one object, up to the first STOP, and ignores what follows
pickle_load(stream) ==
    IF stream = <<>> \/ \A i \in 1..Len(stream) : stream[i].op # "STOP"
    THEN [err |-> "EOFError", obj |-> <<>>]
    ELSE LET stop == CHOOSE i \in 1..Len(stream) :
                         /\ stream[i].op = "STOP"
                         /\ \A j \in 1..(i - 1) : stream[j].op # "STOP"
         IN IF stream[1].op # "TREE" \/ \E j \in 2..(stop - 1) : stream[j].op # "SETITEM"
            THEN [err |-> "UnpicklingError", obj |-> <<>>]
            ELSE [err |-> "",
                  obj |-> <<[tree |-> stream[1].tree,
                             lut |-> [j \in 1..(stop - 2) |-> stream[j + 1].item],
                             number_of_nodes |-> stream[1].n]>>]

isfile(fs, key) == key \in DOMAIN fs

\* open(path, 'wb'): creates the file or truncates it
open_wb(fs, key) == (key :> <<>>) @@ fs

\* mutant: the data goes to the end of the file
write_append(fs, key, data) == (key :> (fs[key] \o data)) @@ fs

\* write at offset 0 of a file opened earlier: bytes beyond the data stay
write_at_0(fs, key, data) ==
    (key :> (data \o SubSeq(fs[key], Len(data) + 1, Len(fs[key])))) @@ fs

\* ---------------------------------------------------------------- Statistics
\* Each operator is one method run in a process whose DATAFILE has key `date`
\* and whose default `tree` dict is `shared`.

\* TocFormatter.show / DiffTocFormatter.show: list(iterable) runs the generator
\* to its end before anything is printed
show(kind, it) ==
    [kind |-> IF it.err = "" THEN kind ELSE "error", err |-> it.err,
     items |-> IF it.err = "" THEN it.items ELSE <<>>]

_print_table_of_content(shared) ==
    LET t == Tree(toc, chapters, shared)
        it == IF t.err # "" THEN [err |-> t.err, items |-> <<>>] ELSE get_tree(t)
    IN show("toc", it) @@ [n |-> t.number_of_nodes, shared |-> t.shared]

_print_diff_table_of_content(date, shared) ==
    LET info == pickle_load(files[date]) IN
    IF info.err # ""
    THEN show("diff", [err |-> info.err, items |-> <<>>]) @@ [n |-> 0, shared |-> shared]
    ELSE LET t == Tree(toc, chapters, shared)
             it == IF t.err # "" THEN [err |-> t.err, items |-> <<>>]
                   ELSE DiffTree_iter(t, info.obj)
         IN show("diff", it) @@ [n |-> t.number_of_nodes, shared |-> t.shared]

print_table_of_content(date, shared) ==
    IF ~isfile(files, date) THEN _print_table_of_content(shared)
    ELSE _print_diff_table_of_content(date, shared)

\* backup(path): the file is opened before the dict, and so the Tree, is built
backup(fs, date, shared) ==
    LET opened == open_wb(fs, date)
        t == Tree(toc, chapters, shared)
    IN IF t.err # ""
       THEN [err |-> t.err, files |-> opened, shared |-> t.shared, wrote |-> TRUE]
       ELSE [err |-> "", files |-> write_at_0(opened, date, pickle_dump(t)),
             shared |-> t.shared, wrote |-> TRUE]

\* mutant: no presence check
backup_every_time(fs, date, shared) == backup(fs, date, shared)

backup_first_start_of_day(fs, date, shared) ==
    IF ~isfile(fs, date) THEN backup(fs, date, shared)
    ELSE [err |-> "", files |-> fs, shared |-> shared, wrote |-> FALSE]

Logged(hist, date, b) ==
    IF b.wrote THEN [hist EXCEPT ![date] = Append(@, day)] ELSE hist

\* ---------------------------------------------------------------- the document
Ch1 == <<"chapter", <<"1">>, "A", "1">>
Ch10 == <<"chapter", <<"1", "0">>, "B", "2">>
S10_1 == <<"section", <<"1", "0", ".", "1">>, "C", "3">>
SS10_1_1 == <<"subsection", <<"1", "0", ".", "1", ".", "1">>, "D", "4">>

Records == {Ch1, Ch10, S10_1, SS10_1_1}
Captions == {r[3] : r \in Records}

\* tables of contents: every order of up to MaxRecs different records
Tocs == {t \in UNION {[1..k -> Records] : k \in 0..MaxRecs} :
            \A i, j \in 1..Len(t) : i # j => t[i] # t[j]}

\* chapter directories: any set of source units, each of up to MaxWords words
Dirs == UNION {[S -> 0..MaxWords] : S \in SUBSET Captions}

\* ---------------------------------------------------------------- processes
\* out: op is who ran ("script", "server", "DiffTree"), text the command received
\* (utf8: whether the bytes received decode),
\* kind what was printed, key the snapshot key of the process, on the day of
\* the run, wrote whether the run opened the snapshot file for writing
NoOut == [op |-> "", utf8 |-> TRUE, text |-> "", kind |-> "", err |-> "", items |-> <<>>,
          n |-> 0, input |-> <<>>, key |-> 0, on |-> 0, wrote |-> FALSE]

Printed(op, text, date, p, wrote) ==
    [op |-> op, utf8 |-> TRUE, text |-> text, kind |-> p.kind, err |-> p.err, items |-> p.items,
     n |-> p.n, input |-> toc, key |-> date, on |-> day, wrote |-> wrote]

Report(data, kind, err, wrote) ==
    [NoOut EXCEPT !.op = "server", !.utf8 = data.utf8, !.text = data.text, !.kind = kind, !.err = err,
                  !.key = srv.DATE, !.on = day, !.wrote = wrote]

\* python latex.py: a new process, so DATE is today and the default dict is empty;
\* p is what print_table_of_content did, b what backup_first_start_of_day did
ScriptRun ==
    \E p \in {print_table_of_content(day, <<>>)} :
    \E b \in {backup_first_start_of_day(files, day, p.shared)} :
       /\ IF p.err # ""
          THEN /\ out' = Printed("script", "", day, p, FALSE)
               /\ UNCHANGED <<files, written>>
          ELSE /\ out' = Printed("script", "", day, p, b.wrote)
               /\ files' = b.files
               /\ written' = Logged(written, day, b)
       /\ UNCHANGED <<day, toc, chapters, srv, edits, procs, cw, bib>>

\* python server.py: `from latex import *` sets DATE and DATAFILE once
StartServer ==
    /\ srv.state = "down"
    /\ srv' = [state |-> "listening", DATE |-> day, shared |-> <<>>]
    /\ out' = NoOut
    /\ UNCHANGED <<day, toc, chapters, files, written, edits, procs, cw, bib>>

\* loop_forever: serversock.accept()
Accept ==
    /\ srv.state = "listening"
    /\ srv' = [srv EXCEPT !.state = "connected"]
    /\ out' = NoOut
    /\ UNCHANGED <<day, toc, chapters, files, written, edits, procs, cw, bib>>

\* handle_request: recv returns no data, the client has closed
Close ==
    /\ srv.state = "connected"
    /\ srv' = [srv EXCEPT !.state = "listening"]
    /\ out' = NoOut
    /\ UNCHANGED <<day, toc, chapters, files, written, edits, procs, cw, bib>>

\* what a client can send: text, or bytes that are not UTF-8
Texts == {"toc", "lot", "lof", "unu", "unu refs", "unu figs", "und", "backup",
          "help", "tocbackup", "TOC"}
Data == [utf8 : {TRUE}, text : Texts] \union {[utf8 |-> FALSE, text |-> "?"]}

\* mutant: the command is matched without regard to case
dispatch_ignorecase(text) ==
    IF text \in {"toc", "TOC"} THEN "print_table_of_content"
    ELSE IF text = "lot" THEN "print_list_of_tables"
    ELSE IF text = "lof" THEN "print_list_of_figures"
    ELSE IF text = "unu" \/ text = "unu refs" THEN "print_unused_references"
    ELSE IF text = "unu figs" THEN "print_unused_figures"
    ELSE IF text = "und" THEN "print_undefined_references"
    ELSE IF text = "backup" THEN "backup_first_start_of_day"
    ELSE "Unknown command"

\* the if/elif chain of handle_request: the branch taken for the decoded text
dispatch(text) ==
    IF text = "toc" THEN "print_table_of_content"
    ELSE IF text = "lot" THEN "print_list_of_tables"
    ELSE IF text = "lof" THEN "print_list_of_figures"
    ELSE IF text = "unu" \/ text = "unu refs" THEN "print_unused_references"
    ELSE IF text = "unu figs" THEN "print_unused_figures"
    ELSE IF text = "und" THEN "print_undefined_references"
    ELSE IF text = "backup" THEN "backup_first_start_of_day"
    ELSE "Unknown command"

\* an exception leaves handle_request and loop_forever: the process ends
AfterCommand(err) == [srv EXCEPT !.state = IF err = "" THEN "connected" ELSE "crashed"]

\* handle_request: one pass of the loop with data received
Command(data) ==
    /\ srv.state = "connected"
    /\ UNCHANGED <<day, toc, chapters, edits, procs, cw, bib>>
    /\ IF ~data.utf8
       THEN /\ srv' = AfterCommand("UnicodeDecodeError")
            /\ out' = Report(data, "error", "UnicodeDecodeError", FALSE)
            /\ UNCHANGED <<files, written>>
       ELSE IF dispatch(data.text) = "print_table_of_content"
       THEN \E p \in {print_table_of_content(srv.DATE, srv.shared)} :
               /\ out' = Printed("server", data.text, srv.DATE, p, FALSE)
               /\ srv' = [AfterCommand(p.err) EXCEPT !.shared = p.shared]
               /\ UNCHANGED <<files, written>>
       ELSE IF dispatch(data.text) = "backup_first_start_of_day"
       THEN \E b \in {backup_first_start_of_day(files, srv.DATE, srv.shared)} :
               /\ files' = b.files
               /\ written' = Logged(written, srv.DATE, b)
               /\ srv' = [AfterCommand(b.err) EXCEPT !.shared = b.shared]
               /\ out' = Report(data, IF b.err = "" THEN "" ELSE "error", b.err, b.wrote)
       ELSE IF dispatch(data.text) = "Unknown command"
       THEN /\ out' = Report(data, "unknown", "", FALSE)
            /\ UNCHANGED <<srv, files, written>>
       ELSE /\ out' = Report(data, dispatch(data.text), "", FALSE)
            /\ UNCHANGED <<srv, files, written>>

\* ---------------------------------------------------------------- the environment
Midnight ==
    /\ day < MaxDay
    /\ day' = day + 1
    /\ out' = NoOut
    /\ UNCHANGED <<toc, chapters, files, written, srv, edits, procs, cw, bib>>

\* the author compiles the document: main.toc is rewritten
Compile(t) ==
    /\ edits < MaxEdits
    /\ t # toc
    /\ toc' = t
    /\ edits' = edits + 1
    /\ out' = NoOut
    /\ UNCHANGED <<day, chapters, files, written, srv, procs, cw, bib>>

\* the author writes or cuts: one source unit gets another word count
Write(c, w) ==
    /\ edits < MaxEdits
    /\ (c \in DOMAIN chapters => chapters[c] # w)
    /\ chapters' = (c :> w) @@ chapters
    /\ edits' = edits + 1
    /\ out' = NoOut
    /\ UNCHANGED <<day, toc, files, written, srv, procs, cw, bib>>

\* ---------------------------------------------------------------- one process, any document
NoProcs == <<>>
NoCw == <<>>
NoBib == <<>>

InitTree ==
    /\ day = 0
    /\ toc \in Tocs
    /\ chapters \in Dirs
    /\ files = <<>>
    /\ written = [k \in 0..MaxDay |-> <<>>]
    /\ srv = [state |-> "connected", DATE |-> 0, shared |-> <<>>]
    /\ out = NoOut
    /\ edits = 0
    /\ procs = NoProcs
    /\ cw = NoCw
    /\ bib = NoBib

NextTree ==
    \/ Command([utf8 |-> TRUE, text |-> "toc"])
    \/ Command([utf8 |-> TRUE, text |-> "backup"])

SpecTree == InitTree /\ [][NextTree]_vars

\* ---------------------------------------------------------------- the project over days
\* DiffTree(table_of_content) used as a library class: diff defaults to None
DiffTree(shared) ==
    LET t == Tree(toc, chapters, shared)
        it == IF t.err # "" THEN [err |-> t.err, items |-> <<>>] ELSE DiffTree_iter(t, <<>>)
    IN show("nodiff", it) @@ [n |-> t.number_of_nodes]

DiffTreeNoBaseline ==
    /\ out' = Printed("DiffTree", "", day, DiffTree(<<>>), FALSE)
    /\ UNCHANGED <<day, toc, chapters, files, written, srv, edits, procs, cw, bib>>

\* the tables of contents the document goes through
Drafts == {<<Ch10>>, <<Ch10, Ch1>>, <<Ch1, Ch10, S10_1>>}

Init ==
    /\ day = 0
    /\ toc = <<Ch1, Ch10>>
    /\ chapters = [c \in {"A", "B", "C"} |-> IF c = "B" THEN 1 ELSE 0]
    /\ files = <<>>
    /\ written = [k \in 0..MaxDay |-> <<>>]
    /\ srv = [state |-> "down", DATE |-> 0, shared |-> <<>>]
    /\ out = NoOut
    /\ edits = 0
    /\ procs = NoProcs
    /\ cw = NoCw
    /\ bib = NoBib

Next ==
    \/ ScriptRun
    \/ StartServer
    \/ Accept
    \/ Close
    \/ \E data \in Data : Command(data)
    \/ DiffTreeNoBaseline
    \/ Midnight
    \/ \E t \in Drafts : Compile(t)
    \/ \E c \in {"B", "C"}, w \in {0, MaxWords} : Write(c, w)

Spec == Init /\ [][Next]_vars

\* ---------------------------------------------------------------- two processes, one snapshot
\* Two processes started today run backup_first_start_of_day step by step:
\* os.path.isfile, open(path, 'wb'), building the dict, and the dump that
\* reaches the file when the with block closes it.
Procs == {1, 2}

RaceInit ==
    [pc |-> [p \in Procs |-> "start"], data |-> [p \in Procs |-> <<>>],
     err |-> [p \in Procs |-> ""], landed |-> <<>>]

RaceCheck(p) ==
    /\ procs.pc[p] = "start"
    /\ procs' = [procs EXCEPT !.pc[p] = IF isfile(files, day) THEN "skipped" ELSE "checked"]
    /\ UNCHANGED <<day, toc, chapters, files, written, srv, out, edits, cw, bib>>

RaceOpen(p) ==
    /\ procs.pc[p] = "checked"
    /\ files' = open_wb(files, day)
    /\ procs' = [procs EXCEPT !.pc[p] = "opened"]
    /\ UNCHANGED <<day, toc, chapters, written, srv, out, edits, cw, bib>>

RaceBuild(p) ==
    /\ procs.pc[p] = "opened"
    /\ LET t == Tree(toc, chapters, <<>>)
       IN procs' = IF t.err # ""
                   THEN [procs EXCEPT !.pc[p] = "failed", !.err[p] = t.err]
                   ELSE [procs EXCEPT !.pc[p] = "built", !.data[p] = pickle_dump(t)]
    /\ UNCHANGED <<day, toc, chapters, files, written, srv, out, edits, cw, bib>>

RaceWrite(p) ==
    /\ procs.pc[p] = "built"
    /\ files' = write_at_0(files, day, procs.data[p])
    /\ written' = [written EXCEPT ![day] = Append(@, day)]
    /\ procs' = [procs EXCEPT !.pc[p] = "done", !.landed = Append(@, p)]
    /\ UNCHANGED <<day, toc, chapters, srv, out, edits, cw, bib>>

InitRace ==
    /\ day = 0
    /\ toc = <<Ch1, Ch10>>
    /\ chapters = [c \in {"A", "B", "C"} |-> IF c = "B" THEN 1 ELSE 0]
    /\ files = <<>>
    /\ written = [k \in 0..MaxDay |-> <<>>]
    /\ srv = [state |-> "down", DATE |-> 0, shared |-> <<>>]
    /\ out = NoOut
    /\ edits = 0
    /\ procs = RaceInit
    /\ cw = NoCw
    /\ bib = NoBib

NextRace ==
    \/ \E p \in Procs : RaceCheck(p)
    \/ \E p \in Procs : RaceOpen(p)
    \/ \E p \in Procs : RaceBuild(p)
    \/ \E p \in Procs : RaceWrite(p)
    \/ \E t \in Drafts : Compile(t)
    \/ \E c \in {"B", "C"}, w \in 0..MaxWords : Write(c, w)

SpecRace == InitRace /\ [][NextRace]_vars

\* ---------------------------------------------------------------- count_words
\* A line is the string readlines() returns, as a sequence of characters.
skipterms == << <<"$", "$">>,
                <<"{", "a", "l", "i", "g", "n">>,
                <<"{", "e", "q", "u", "a", "t", "i", "o", "n", "}">>,
                <<"{", "f", "i", "g", "u", "r", "e", "}">>,
                <<"{", "t", "a", "b", "l", "e", "}">> >>

\* term in line
contains(line, term) ==
    \E i \in 1..(Len(line) - Len(term) + 1) : SubSeq(line, i, i + Len(term) - 1) = term

Whitespace == {" ", "\t", "\n"}

\* len(line.split()): the runs of characters that are not whitespace
split_len(line) ==
    Cardinality({i \in 1..Len(line) :
                    /\ line[i] \notin Whitespace
                    /\ (i = 1 \/ line[i - 1] \in Whitespace)})

\* mutant: a marker line sets the flag instead of toggling it
toggled_on(skip_line, line) ==
    IF \E k \in 1..Len(skipterms) : contains(line, skipterms[k]) THEN TRUE ELSE skip_line

\* if any(map(lambda term: term in line, skipterms)): skip_line = not skip_line
toggled(skip_line, line) ==
    IF \E k \in 1..Len(skipterms) : contains(line, skipterms[k]) THEN ~skip_line ELSE skip_line

\* one pass of the loop over f.readlines()
count_words_step ==
    /\ cw.pc = "loop"
    /\ cw.i <= Len(cw.file)
    /\ LET line == cw.file[cw.i]
           skip_line == toggled(cw.skip_line, line)
           words == IF ~skip_line THEN cw.words + split_len(line) ELSE cw.words
       IN cw' = [cw EXCEPT !.i = @ + 1, !.skip_line = skip_line, !.words = words,
                           !.trace = Append(@, words)]
    /\ UNCHANGED <<day, toc, chapters, files, written, srv, out, edits, procs, bib>>

\* return words
count_words_return ==
    /\ cw.pc = "loop"
    /\ cw.i > Len(cw.file)
    /\ cw' = [cw EXCEPT !.pc = "returned"]
    /\ UNCHANGED <<day, toc, chapters, files, written, srv, out, edits, procs, bib>>

MaxLines == 3       \* lines in one source file

TextLine == <<"a", " ", "b", "\n">>
FigureLine == <<"{", "f", "i", "g", "u", "r", "e", "}", "\n">>
FigureStarLine == <<"{", "f", "i", "g", "u", "r", "e", "*", "}", "\n">>
MathLine == <<"$", "$", " ", "x", " ", "$", "$", "\n">>
DollarLine == <<"$", "$", "\n">>
AlignLine == <<"{", "a", "l", "i", "g", "n", "*", "}", "\n">>
EquationLine == <<"{", "e", "q", "u", "a", "t", "i", "o", "n", "}", "\n">>
TableLine == <<"{", "t", "a", "b", "l", "e", "}", " ", "c", "\n">>
EmptyLine == <<"\n">>

Lines == {TextLine, FigureLine, FigureStarLine, MathLine, DollarLine, AlignLine,
          EquationLine, TableLine, EmptyLine}

SourceFiles == UNION {[1..k -> Lines] : k \in 0..MaxLines}

InitCount ==
    /\ day = 0
    /\ toc = <<>>
    /\ chapters = <<>>
    /\ files = <<>>
    /\ written = [k \in 0..MaxDay |-> <<>>]
    /\ srv = [state |-> "down", DATE |-> 0, shared |-> <<>>]
    /\ out = NoOut
    /\ edits = 0
    /\ procs = NoProcs
    /\ bib = NoBib
    /\ \E f \in SourceFiles :
           cw = [pc |-> "loop", file |-> f, i |-> 1, words |-> 0, skip_line |-> FALSE,
                 trace |-> <<>>]

NextCount ==
    \/ count_words_step
    \/ count_words_return

SpecCount == InitCount /\ [][NextCount]_vars

\* ---------------------------------------------------------------- consistency reports
\* The four key sets are what _parse_references, _parse_citations,
\* _parse_used_figures and _parse_avail_figures return; keys are numbered.
MaxKeys == 3        \* different keys of one kind

\* mutant: every key that is declared or cited counts as used
_compute_all_references(b) == b.references \union b.citations

_compute_used_references(b) == b.references \intersect b.citations
_compute_unused_references(b) == b.references \ _compute_used_references(b)
_compute_undefined_references(b) == b.citations \ _compute_used_references(b)
_compute_unused_figures(b) == b.avail_figures \ b.used_figures

\* sorted(iterable)
RECURSIVE sorted(_)
sorted(S) ==
    IF S = {} THEN <<>>
    ELSE LET m == CHOOSE x \in S : \A y \in S : x <= y IN <<m>> \o sorted(S \ {m})

\* EnumerationFormatter.show(..., order=sorted): the list printed under a report
print_unused_figures ==
    /\ "unused figures" \notin DOMAIN bib.shown
    /\ bib' = [bib EXCEPT !.shown = ("unused figures" :> sorted(_compute_unused_figures(bib))) @@ @]
    /\ UNCHANGED <<day, toc, chapters, files, written, srv, out, edits, procs, cw>>

print_unused_references ==
    /\ "unused references" \notin DOMAIN bib.shown
    /\ bib' = [bib EXCEPT !.shown = ("unused references" :> sorted(_compute_unused_references(bib))) @@ @]
    /\ UNCHANGED <<day, toc, chapters, files, written, srv, out, edits, procs, cw>>

print_undefined_references ==
    /\ "undefined references" \notin DOMAIN bib.shown
    /\ bib' = [bib EXCEPT !.shown = ("undefined references" :> sorted(_compute_undefined_references(bib))) @@ @]
    /\ UNCHANGED <<day, toc, chapters, files, written, srv, out, edits, procs, cw>>

InitBib ==
    /\ day = 0
    /\ toc = <<>>
    /\ chapters = <<>>
    /\ files = <<>>
    /\ written = [k \in 0..MaxDay |-> <<>>]
    /\ srv = [state |-> "down", DATE |-> 0, shared |-> <<>>]
    /\ out = NoOut
    /\ edits = 0
    /\ procs = NoProcs
    /\ cw = NoCw
    /\ \E r, c, u, a \in SUBSET (1..MaxKeys) :
           bib = [references |-> r, citations |-> c, used_figures |-> u, avail_figures |-> a,
                  shown |-> <<>>]

NextBib ==
    \/ print_unused_figures
    \/ print_unused_references
    \/ print_undefined_references

SpecBib == InitBib /\ [][NextBib]_vars

\* ================================================================ claims
\* the items of a printed tree that carry number `number`
Occurrences(items, number) == {i \in 1..Len(items) : items[i][2] = number}

\* the parent of items[i] in a pre-order listing: the nearest earlier item one level up
ParentIndex(items, i) ==
    LET above == {j \in 1..(i - 1) : items[j][1] = items[i][1] - 1}
    IN IF above = {} THEN 0 ELSE Max(above)

\* a dotted number without its last component: "10.1" -> "10", "1" -> ""
ParentNumber(number) ==
    LET dots == {i \in 1..Len(number) : number[i] = "."}
    IN IF dots = {} THEN <<>> ELSE SubSeq(number, 1, Max(dots) - 1)

TocPrinted == out.op = "server" /\ out.text = "toc" /\ out.kind = "toc"

\* C1: the built tree has as many nodes as there are input records, and
\* iterating it yields every record exactly once (none dropped, none duplicated).
C1_EveryRecordOnce ==
    TocPrinted =>
        /\ out.n = Len(out.input)
        /\ Len(out.items) = Len(out.input)
        /\ \A r \in 1..Len(out.input) :
               Cardinality(Occurrences(out.items, out.input[r][2])) = 1

\* C2: every emitted level is the number of dots of the node's number, and
\* every non-root node hangs under exactly one parent, whose number is the
\* child's number without its last component.
C2_LevelAndParent ==
    TocPrinted =>
        \A i \in 1..Len(out.items) :
            /\ out.items[i][1] = count(out.items[i][2], ".")
            /\ Cardinality(Occurrences(out.items, out.items[i][2])) = 1
            /\ out.items[i][1] > 0 =>
                   /\ ParentIndex(out.items, i) # 0
                   /\ out.items[ParentIndex(out.items, i)][2] = ParentNumber(out.items[i][2])

\* C5: a tree stored as the snapshot, loaded and used as the baseline of a
\* DiffTree of the same records and word counts gives priorWords = words and
\* priorPercent = percent for every node, and the diff is produced.
C5_RoundTrip ==
    (out.op = "server" /\ out.text = "toc" /\ isfile(files, out.key) /\ files[out.key] # <<>>) =>
        /\ out.kind = "diff"
        /\ Len(out.items) = out.n
        /\ \A i \in 1..Len(out.items) :
               /\ Len(out.items[i]) = 8
               /\ out.items[i][7] = out.items[i][5]
               /\ out.items[i][8] = out.items[i][6]

C5_Witness ==
    /\ out.kind = "diff"
    /\ Len(out.items) = 3
    /\ \E i \in 1..Len(out.items) : out.items[i][5] # out.items[i][6] /\ out.items[i][5] > 0

\* C7: for every word-count mapping that has a count for each record, all
\* zero included, the tree is built, every percent lies in 0..50, percent
\* does not decrease when words grow, and a node with maxwords words has 50.
C7_Percent ==
    (/\ out.op = "server" /\ out.text = "toc" /\ ~isfile(files, out.key)
     /\ \A r \in 1..Len(out.input) : out.input[r][3] \in DOMAIN chapters) =>
        /\ out.kind = "toc"
        /\ \A i \in 1..Len(out.items) :
               /\ out.items[i][6] \in 0..50
               /\ out.items[i][5] = count_all_words(chapters).maxwords => out.items[i][6] = 50
               /\ \A j \in 1..Len(out.items) :
                      out.items[i][5] <= out.items[j][5] => out.items[i][6] <= out.items[j][6]

\* ---------------------------------------------------------------- snapshot per day
\* C3: a snapshot file, once it exists, is never written again: every later
\* invocation (script run or server command) leaves its content as it is.
C3_SnapshotWrittenOnce ==
    [][\A k \in DOMAIN files :
           /\ k \in DOMAIN files'
           /\ files'[k] = files[k]
           /\ written'[k] = written[k]]_vars

\* a backup that found today's snapshot and left it, though the document changed
C3_Witness ==
    /\ out.op = "script" \/ (out.op = "server" /\ out.text = "backup")
    /\ out.err = "" /\ ~out.wrote
    /\ isfile(files, out.key) /\ written[out.key] = <<out.on>>
    /\ files[out.key] # <<>>
    /\ files[out.key] # pickle_dump(Tree(toc, chapters, <<>>))

\* C4: whenever a diff is printed, its baseline was captured on the day of the
\* invocation that prints it.
C4_BaselineFromToday ==
    out.kind = "diff" => written[out.key] = <<out.on>>

\* the run took the diff path of print_table_of_content
DiffPath ==
    /\ out.op = "script" \/ (out.op = "server" /\ out.text = "toc")
    /\ isfile(files, out.key) /\ ~out.wrote

\* the tree the run built, and its plain traversal
Current == Tree(out.input, chapters, IF out.op = "server" THEN srv.shared ELSE <<>>)
Plain == IF Current.err # "" THEN [err |-> Current.err, items |-> <<>>] ELSE get_tree(Current)

\* C6: with a baseline, the diff lists the nodes of the current tree in
\* traversal order, each with the words and percent the baseline stores under
\* the same number; a node missing from the baseline fails the whole diff with
\* a KeyError; without a baseline DiffTree yields the 6-field nodes of the tree.
C6_DiffAgainstBaseline ==
    /\ out.kind = "diff" =>
           LET base == pickle_load(files[out.key]).obj[1]
               plain == Plain
           IN /\ Len(out.items) = Len(plain.items)
              /\ \A i \in 1..Len(out.items) :
                     /\ SubSeq(out.items[i], 1, 6) = plain.items[i]
                     /\ out.items[i][2] \in Keys(base.lut)
                     /\ out.items[i][7] = DictGet(base.lut, out.items[i][2])[4]
                     /\ out.items[i][8] = DictGet(base.lut, out.items[i][2])[5]
    /\ DiffPath =>
           LET loaded == pickle_load(files[out.key])
               plain == Plain
           IN (/\ loaded.err = "" /\ plain.err = ""
               /\ \E i \in 1..Len(plain.items) :
                      plain.items[i][2] \notin Keys(loaded.obj[1].lut)) =>
                  out.kind = "error" /\ out.err = "KeyError" /\ out.items = <<>>
    /\ (out.op = "DiffTree" /\ out.kind = "nodiff") =>
           LET plain == Plain
           IN /\ out.items = plain.items
              /\ \A i \in 1..Len(out.items) : Len(out.items[i]) = 6

\* a diff that shows words written since the baseline
C6_Witness ==
    /\ out.kind = "diff"
    /\ \E i \in 1..Len(out.items) : out.items[i][7] # out.items[i][5]

\* ---------------------------------------------------------------- server
Commands == {"toc", "lof", "lot", "unu", "unu refs", "unu figs", "und", "backup"}

\* C9: a text received that is no command is answered with "Unknown command",
\* changes neither the snapshot files nor the process, and leaves the
\* connection open for the next command.
C9_UnknownCommand ==
    [][(out'.op = "server" /\ out'.utf8 /\ out'.text \notin Commands) =>
           /\ out'.kind = "unknown" /\ out'.err = ""
           /\ srv.state = "connected" /\ srv' = srv
           /\ UNCHANGED <<day, toc, chapters, files, written>>]_vars

C9_Witness ==
    /\ out.op = "server" /\ out.kind = "unknown" /\ out.text \notin Commands
    /\ srv.state = "connected" /\ isfile(files, srv.DATE)

\* ---------------------------------------------------------------- racing backups
RaceWrote(p) == procs.pc[p] = "done"

HasMarker(line) == \E k \in 1..Len(skipterms) : contains(line, skipterms[k])
FlagAt(file, i) == Cardinality({j \in 1..i : HasMarker(file[j])}) % 2 = 1

RECURSIVE SumTo(_, _)
SumTo(file, i) ==
    IF i = 0 THEN 0
    ELSE SumTo(file, i - 1) + (IF FlagAt(file, i) THEN 0 ELSE split_len(file[i]))

\* C10: count_words returns the sum of the token counts of the lines at which
\* the exclusion flag is clear; between a line that sets the flag and the next
\* marker line, which clears it, no word is counted.
C10_CountWords ==
    /\ cw.pc = "returned" => cw.words = SumTo(cw.file, Len(cw.file))
    /\ \A i, j \in 1..Len(cw.trace) :
           (/\ i < j /\ HasMarker(cw.file[i]) /\ HasMarker(cw.file[j])
            /\ FlagAt(cw.file, i)
            /\ \A k \in (i + 1)..(j - 1) : ~HasMarker(cw.file[k])) =>
               cw.trace[j - 1] = (IF i = 1 THEN 0 ELSE cw.trace[i - 1])

\* {figure} ... text ... {figure}: the text between is not counted
C10_Witness ==
    /\ cw.pc = "returned"
    /\ cw.file = <<FigureLine, TextLine, FigureLine>>
    /\ cw.words = 1

\* how often term occurs in line, and in the whole file
Occ(line, term) ==
    Cardinality({i \in 1..(Len(line) - Len(term) + 1) :
                    SubSeq(line, i, i + Len(term) - 1) = term})

RECURSIVE OccIn(_, _, _)
OccIn(file, term, i) ==
    IF i = 0 THEN 0 ELSE OccIn(file, term, i - 1) + Occ(file[i], term)

\* the last line of file that holds term
LastLineWith(file, term) == Max({i \in 1..Len(file) : contains(file[i], term)})

\* C11: when one marker occurs an odd number of times in a file (and no other
\* marker occurs), however its occurrences are spread over the lines, the flag
\* is set at the end of the file and no line after the marker's last
\* occurrence is counted.
C11_OddMarkerCount ==
    cw.pc = "returned" =>
        \A k \in 1..Len(skipterms) :
            (/\ OccIn(cw.file, skipterms[k], Len(cw.file)) % 2 = 1
             /\ \A o \in 1..Len(skipterms) :
                    o # k => OccIn(cw.file, skipterms[o], Len(cw.file)) = 0) =>
                /\ cw.skip_line
                /\ cw.words = cw.trace[LastLineWith(cw.file, skipterms[k])]

\* ---------------------------------------------------------------- traversal order
\* what a process that has built no tree before prints for records `input`
FreshBuild(input) ==
    LET t == Tree(input, chapters, <<>>)
    IN show("toc", IF t.err # "" THEN [err |-> t.err, items |-> <<>>] ELSE get_tree(t))

\* C13: the plain table of contents a process prints is the one a process
\* that has built no tree before prints for the same records: the traversal
\* depends on the records alone, not on the trees built earlier in the process.
C13_OrderFromRecordsAlone ==
    (/\ out.op = "script" \/ (out.op = "server" /\ out.text = "toc")
     /\ ~isfile(files, out.key)) =>
        LET fresh == FreshBuild(out.input)
        IN /\ out.kind = fresh.kind
           /\ out.err = fresh.err
           /\ out.items = fresh.items

\* ---------------------------------------------------------------- snapshot content
\* C14: every snapshot file that exists loads as a completely built tree; a
\* backup that fails while the tree is built leaves no file behind.
C14_SnapshotComplete ==
    \A k \in DOMAIN files : pickle_load(files[k]).err = ""

\* ---------------------------------------------------------------- consistency
\* the set a report listed
Shown(report) == {bib.shown[report][i] : i \in 1..Len(bib.shown[report])}

\* C12: the unused figures share no key with the used figures; the unused
\* references together with the declared-and-cited ones are the declared ones;
\* the undefined references share no key with the declared ones; unused, used
\* and undefined references are disjoint and cover declared and cited keys.
C12_ConsistencySets ==
    /\ "unused figures" \in DOMAIN bib.shown =>
           Shown("unused figures") \intersect bib.used_figures = {}
    /\ "unused references" \in DOMAIN bib.shown =>
           Shown("unused references") \union (bib.references \intersect bib.citations)
               = bib.references
    /\ "undefined references" \in DOMAIN bib.shown =>
           Shown("undefined references") \intersect bib.references = {}
    /\ {"unused references", "undefined references"} \subseteq DOMAIN bib.shown =>
           LET unused == Shown("unused references")
               undefined == Shown("undefined references")
               used == bib.references \intersect bib.citations
           IN /\ unused \union used \union undefined = bib.references \union bib.citations
              /\ unused \intersect used = {}
              /\ unused \intersect undefined = {}
              /\ used \intersect undefined = {}

\* all three reports made, none of the parts empty
C12_Witness ==
    /\ DOMAIN bib.shown = {"unused figures", "unused references", "undefined references"}
    /\ bib.shown["unused figures"] # <<>>
    /\ bib.shown["unused references"] # <<>>
    /\ bib.shown["undefined references"] # <<>>
    /\ bib.references \intersect bib.citations # {}
    /\ bib.used_figures \intersect bib.avail_figures # {}
====
